---------------------------- MODULE Spec2Model ----------------------------
(***************************************************************************)
(* Model of the Trade-AI backtester (src/backtester.py) and of the chunked *)
(* downloader (src/get_data.py).                                           *)
(*                                                                         *)
(* Numbers.  A float64 is modelled as a pair <<n, d>>:                     *)
(*   d > 0      the rational n/d in lowest terms (exact arithmetic),       *)
(*   <<1, 0>>   +infinity,  <<-1, 0>>  -infinity,  <<0, 0>>  NaN.          *)
(* The operators follow IEEE-754 for the non-finite cases (x/0, 0*inf,     *)
(* inf-inf).  Rounding is not modelled: finite results are exact.          *)
(* Values of the form q*sqrt(r) (standard deviation, Sharpe ratio) are     *)
(* kept as records [coef |-> q, rad |-> r].                                *)
(***************************************************************************)
EXTENDS Integers, Sequences, FiniteSets, TLC

(***************************************************************************)
(* Bounds of the model.                                                    *)
(***************************************************************************)
\* longest price table of the exhaustive family of inputs
MaxLen == 3
\* largest number of half max-lookback spans between start and end
MaxHalfSpans == 5
\* latest start day of a download
MaxStart == 1

(***************************************************************************)
(* float64 arithmetic                                                      *)
(***************************************************************************)
Abs(x) == IF x < 0 THEN -x ELSE x

Sgn(x) == IF x < 0 THEN -1 ELSE IF x > 0 THEN 1 ELSE 0

RECURSIVE GCD(_, _)
GCD(a, b) == IF b = 0 THEN a ELSE GCD(b, a % b)

\* the rational n/d (d # 0) in lowest terms with a positive denominator
Rat(n, d) ==
    LET g == GCD(Abs(n), Abs(d))
        s == IF d < 0 THEN -1 ELSE 1
    IN  <<(s * n) \div g, (s * d) \div g>>

NaN == <<0, 0>>
PosInf == <<1, 0>>
NegInf == <<-1, 0>>
Zero == <<0, 1>>
One == <<1, 1>>
Int2F(k) == <<k, 1>>

IsNaN(v) == v = NaN
IsFinite(v) == v[2] # 0
IsInf(v) == v = PosInf \/ v = NegInf

Neg(a) == <<-a[1], a[2]>>

Add(a, b) ==
    IF IsFinite(a) /\ IsFinite(b) THEN Rat(a[1] * b[2] + b[1] * a[2], a[2] * b[2])
    ELSE IF IsNaN(a) \/ IsNaN(b) THEN NaN
    ELSE IF IsFinite(a) THEN b
    ELSE IF IsFinite(b) THEN a
    ELSE IF a = b THEN a
    ELSE NaN

Sub(a, b) == Add(a, Neg(b))

Mul(a, b) ==
    IF IsFinite(a) /\ IsFinite(b) THEN Rat(a[1] * b[1], a[2] * b[2])
    ELSE IF IsNaN(a) \/ IsNaN(b) THEN NaN
    ELSE IF a[1] = 0 \/ b[1] = 0 THEN NaN
    ELSE IF Sgn(a[1]) * Sgn(b[1]) > 0 THEN PosInf
    ELSE NegInf

\* zeros are +0: every divisor of the program that can be zero is a price read
\* from a table, a capital or a standard deviation
Div(a, b) ==
    IF IsNaN(a) \/ IsNaN(b) THEN NaN
    ELSE IF IsFinite(a) /\ IsFinite(b)
         THEN IF b[1] # 0 THEN Rat(a[1] * b[2], a[2] * b[1])
              ELSE IF a[1] = 0 THEN NaN
              ELSE IF a[1] > 0 THEN PosInf
              ELSE NegInf
    ELSE IF IsInf(a) /\ IsInf(b) THEN NaN
    ELSE IF IsFinite(a) THEN Zero
    ELSE IF b[1] >= 0 THEN a
    ELSE Neg(a)

\* a < b for values that are not NaN
Less(a, b) ==
    IF IsInf(a) /\ IsInf(b) THEN a = NegInf /\ b = PosInf
    ELSE a[1] * b[2] < b[1] * a[2]

Leq(a, b) == a = b \/ Less(a, b)

MaxF(a, b) == IF Less(a, b) THEN b ELSE a
MinF(a, b) == IF Less(b, a) THEN b ELSE a

(***************************************************************************)
(* q * sqrt(r): coef is a float64, rad a positive rational.                *)
(***************************************************************************)
Surd(q, r) ==
    IF ~IsFinite(q) \/ q = Zero \/ ~IsFinite(r) THEN [coef |-> q, rad |-> One]
    ELSE IF r = Zero THEN [coef |-> Zero, rad |-> One]
    ELSE [coef |-> q, rad |-> r]

\* numpy sqrt of a variance (never negative)
Sqrt(v) ==
    IF ~IsFinite(v) THEN [coef |-> v, rad |-> One]
    ELSE Surd(One, v)

SurdIsZero(s) == s.coef = Zero
SurdIsNaN(s) == IsNaN(s.coef)
SurdIsFinite(s) == IsFinite(s.coef)

\* s * sqrt(k)
SurdTimesSqrt(s, k) ==
    IF ~IsFinite(s.coef) \/ s.coef = Zero THEN s
    ELSE Surd(s.coef, Mul(s.rad, k))

\* x / s for a float64 x:  x / (q sqrt r) = (x / (q r)) sqrt r
DivBySurd(x, s) ==
    IF ~IsFinite(s.coef) \/ s.coef = Zero \/ ~IsFinite(x)
    THEN [coef |-> Div(x, s.coef), rad |-> One]
    ELSE Surd(Div(x, Mul(s.coef, s.rad)), s.rad)

(***************************************************************************)
(* pandas Series operations, on sequences of float64                       *)
(***************************************************************************)
\* a shift that forgets the lag
ShiftNoLag(s) == s

shift(s) == [i \in 1..Len(s) |-> IF i = 1 THEN NaN ELSE s[i - 1]]

\* a fillna that fills nothing
FillNothing(s, v) == s

fillna(s, v) == [i \in 1..Len(s) |-> IF IsNaN(s[i]) THEN v ELSE s[i]]

\* Series.pct_change(): s / s.shift(1) - 1 (the series holds no NaN to pad)
pct_change(s) ==
    LET p == shift(s)
    IN  [i \in 1..Len(s) |-> Sub(Div(s[i], p[i]), One)]

SeriesMul(a, b) == [i \in 1..Len(a) |-> Mul(a[i], b[i])]
SeriesDiv(a, b) == [i \in 1..Len(a) |-> Div(a[i], b[i])]
SeriesAddScalar(a, k) == [i \in 1..Len(a) |-> Add(a[i], k)]
SeriesMulScalar(a, k) == [i \in 1..Len(a) |-> Mul(a[i], k)]

\* Series.cumprod(), skipna: a NaN entry stays NaN and is skipped by the
\* running product; a NaN the product itself makes (inf * 0) propagates
RECURSIVE CumProdAcc(_, _, _)
CumProdAcc(s, i, acc) ==
    IF i > Len(s) THEN <<>>
    ELSE IF IsNaN(s[i]) THEN <<NaN>> \o CumProdAcc(s, i + 1, acc)
    ELSE LET a == Mul(acc, s[i]) IN <<a>> \o CumProdAcc(s, i + 1, a)

cumprod(s) == CumProdAcc(s, 1, One)

\* Series.cummax(), skipna
RECURSIVE CumMaxAcc(_, _, _)
CumMaxAcc(s, i, acc) ==
    IF i > Len(s) THEN <<>>
    ELSE IF IsNaN(s[i]) THEN <<NaN>> \o CumMaxAcc(s, i + 1, acc)
    ELSE LET a == MaxF(acc, s[i]) IN <<a>> \o CumMaxAcc(s, i + 1, a)

\* a running maximum that forgets the earlier peaks
CumMaxForgetful(s) == s

cummax(s) == CumMaxAcc(s, 1, NegInf)

NotNaIdx(s) == {i \in 1..Len(s) : ~IsNaN(s[i])}

RECURSIVE SumOver(_, _)
SumOver(s, I) ==
    IF I = {} THEN Zero
    ELSE LET i == CHOOSE j \in I : \A k \in I : j <= k
         IN  Add(s[i], SumOver(s, I \ {i}))

\* Series.mean(), skipna
SeriesMean(s) ==
    LET I == NotNaIdx(s)
    IN  IF I = {} THEN NaN ELSE Div(SumOver(s, I), Int2F(Cardinality(I)))

\* Series.var(ddof=1), skipna (nanops.nanvar)
SeriesVar(s) ==
    LET I == NotNaIdx(s)
        c == Cardinality(I)
        avg == Div(SumOver(s, I), Int2F(c))
        sqr == [i \in 1..Len(s) |-> LET e == Sub(avg, s[i]) IN Mul(e, e)]
    IN  IF c <= 1 THEN NaN ELSE Div(SumOver(sqr, I), Int2F(c - 1))

\* Series.std(): sample standard deviation
SeriesStd(s) == Sqrt(SeriesVar(s))

\* Series.min(), skipna
RECURSIVE MinOver(_, _)
MinOver(s, I) ==
    IF I = {} THEN PosInf
    ELSE LET i == CHOOSE j \in I : TRUE
         IN  MinF(s[i], MinOver(s, I \ {i}))

SeriesMin(s) == IF NotNaIdx(s) = {} THEN NaN ELSE MinOver(s, NotNaIdx(s))

(***************************************************************************)
(* pandas.infer_freq on a DatetimeIndex.  A timestamp is a number of       *)
(* minutes since Monday 2024-01-01 00:00; every index of the model lies    *)
(* within January 2024, where the annual, quarterly, monthly and           *)
(* week-of-month rules of the inferer find nothing.  The codes are those   *)
(* of pandas 1.x ('H', 'T'), the version whose read_csv still takes        *)
(* infer_datetime_format.  A code is a sequence of characters.             *)
(***************************************************************************)
MinPerHour == 60
MinPerDay == 1440

None == [kind |-> "None"]
Code(chars) == [kind |-> "str", chars |-> chars]
Raise(exc) == [kind |-> "raise", exc |-> exc]

Digit(k) == <<"0", "1", "2", "3", "4", "5", "6", "7", "8", "9">>[k + 1]

\* str(k) for k >= 0
RECURSIVE Str(_)
Str(k) == IF k < 10 THEN <<Digit(k)>> ELSE Str(k \div 10) \o <<Digit(k % 10)>>

\* _maybe_add_count(base, count)
MaybeAddCount(base, count) == IF count # 1 THEN Str(count) \o base ELSE base

Deltas(idx) == {idx[i + 1] - idx[i] : i \in 1..(Len(idx) - 1)}

MinDelta(idx) == CHOOSE d \in Deltas(idx) : \A e \in Deltas(idx) : d <= e

IsMonotonic(idx) ==
    \/ \A i \in 1..(Len(idx) - 1) : idx[i] <= idx[i + 1]
    \/ \A i \in 1..(Len(idx) - 1) : idx[i] >= idx[i + 1]

IsUniqueIndex(idx) == \A i, j \in 1..Len(idx) : idx[i] = idx[j] => i = j

\* Timestamp.weekday(): Monday is 0
Weekday(t) == (t \div MinPerDay) % 7

WeekdayName(w) ==
    << <<"M", "O", "N">>, <<"T", "U", "E">>, <<"W", "E", "D">>, <<"T", "H", "U">>,
       <<"F", "R", "I">>, <<"S", "A", "T">>, <<"S", "U", "N">> >>[w + 1]

\* _FrequencyInferer._get_daily_rule
DailyRule(idx) ==
    LET days == MinDelta(idx) \div MinPerDay
    IN  IF days % 7 = 0
        THEN MaybeAddCount(<<"W", "-">> \o WeekdayName(Weekday(idx[1])), days \div 7)
        ELSE MaybeAddCount(<<"D">>, days)

RECURSIVE ShiftSum(_, _)
ShiftSum(idx, i) ==
    IF i = 1 THEN 0 ELSE ShiftSum(idx, i - 1) + ((idx[i] - idx[i - 1]) \div MinPerDay)

\* _FrequencyInferer._is_business_daily
IsBusinessDaily(idx) ==
    /\ Deltas(idx) = {MinPerDay, 3 * MinPerDay}
    /\ \A i \in 2..Len(idx) :
         LET sh == (idx[i] - idx[i - 1]) \div MinPerDay
             wd == (Weekday(idx[1]) + ShiftSum(idx, i)) % 7
         IN  (wd = 0 /\ sh = 3) \/ (wd > 0 /\ wd <= 4 /\ sh = 1)

\* _FrequencyInferer._infer_daily_rule
InferDailyRule(idx) ==
    IF Cardinality(Deltas(idx)) = 1 THEN Code(DailyRule(idx))
    ELSE IF IsBusinessDaily(idx) THEN Code(<<"B">>)
    ELSE None

HourDeltas(idx) == {d \div MinPerHour : d \in {e \in Deltas(idx) : e % MinPerHour = 0}}

\* _FrequencyInferer.get_freq, after the length check of its constructor
infer_freq(idx) ==
    IF Len(idx) < 3 THEN Raise("ValueError")
    ELSE IF ~IsMonotonic(idx) \/ ~IsUniqueIndex(idx) THEN None
    ELSE IF MinDelta(idx) % MinPerDay = 0 THEN InferDailyRule(idx)
    ELSE IF /\ \A d \in Deltas(idx) : d % MinPerHour = 0
            /\ HourDeltas(idx) \in {{1, 17}, {1, 65}, {1, 17, 65}}
         THEN Code(<<"B", "H">>)
    ELSE IF Cardinality(Deltas(idx)) # 1 THEN None
    ELSE IF MinDelta(idx) % MinPerHour = 0
         THEN Code(MaybeAddCount(<<"H">>, MinDelta(idx) \div MinPerHour))
    ELSE Code(MaybeAddCount(<<"T">>, MinDelta(idx)))

(***************************************************************************)
(* src/backtester.py                                                       *)
(***************************************************************************)
\* the mapping of annualization_factor: 252, 252 * 6.5, 252 * 6.5 * 4
mapping ==
    [c \in {"D", "B", "H", "T"} |->
        CASE c = "D" -> Int2F(252)
          [] c = "B" -> Int2F(252)
          [] c = "H" -> Mul(Int2F(252), Rat(13, 2))
          [] c = "T" -> Mul(Mul(Int2F(252), Rat(13, 2)), Int2F(4))]

\* mapping.get(freq[0], 252)
annualization_factor(freq) ==
    IF freq[1] \in DOMAIN mapping THEN mapping[freq[1]] ELSE Int2F(252)

\* df[name] = s : the column is added to (or replaced in) the table itself
SetCol(df, name, s) ==
    [df EXCEPT !.cols =
        [c \in (DOMAIN df.cols) \cup {name} |-> IF c = name THEN s ELSE df.cols[c]]]

NoPerf == [kind |-> "none"]

\* compute_performance(df, signal_col, price_col, capital): the caller's table
\* as the call leaves it, and the dict returned or the exception raised
compute_performance(df, signal_col, price_col, capital) ==
    LET df1 == SetCol(df, "price_ret", fillna(pct_change(df.cols[price_col]), Zero))
        df2 == SetCol(df1, "strat_ret",
                      SeriesMul(fillna(shift(df1.cols[signal_col]), Zero),
                                df1.cols["price_ret"]))
        df3 == SetCol(df2, "equity",
                      SeriesMulScalar(cumprod(SeriesAddScalar(df2.cols["strat_ret"], One)),
                                      capital))
        n == Len(df3.index)
        equity == df3.cols["equity"]
        strat_ret == df3.cols["strat_ret"]
        total_ret == Sub(Div(equity[n], capital), One)
        mean_ret == SeriesMean(strat_ret)
        std_ret == SeriesStd(strat_ret)
        inferred == infer_freq(df3.index)
        freq == IF inferred.kind = "None" THEN <<"D">> ELSE inferred.chars
        ann_factor == annualization_factor(freq)
        ann_ret == [base |-> Add(One, mean_ret), exp |-> ann_factor, minus |-> One]
        ann_vol == SurdTimesSqrt(std_ret, ann_factor)
        sharpe == IF ~SurdIsZero(std_ret)
                  THEN SurdTimesSqrt(DivBySurd(mean_ret, std_ret), ann_factor)
                  ELSE [coef |-> NaN, rad |-> One]
        running_max == cummax(equity)
        drawdown == SeriesAddScalar(SeriesDiv(equity, running_max), Neg(One))
        max_dd == SeriesMin(drawdown)
    IN  IF n = 0 THEN [df |-> df3, raised |-> "IndexError", perf |-> NoPerf]
        ELSE IF inferred.kind = "raise"
             THEN [df |-> df3, raised |-> inferred.exc, perf |-> NoPerf]
        ELSE [df |-> df3, raised |-> "",
              perf |-> [kind |-> "dict",
                        total_return |-> total_ret,
                        annual_return |-> ann_ret,
                        annual_volatility |-> ann_vol,
                        sharpe_ratio |-> sharpe,
                        max_drawdown |-> max_dd,
                        equity_series |-> df3.cols["equity"],
                        returns_series |-> df3.cols["strat_ret"]]]

(***************************************************************************)
(* src/get_data.py.  A datetime is a number of hours since an epoch at     *)
(* midnight; strftime("%Y-%m-%d") keeps its day.                           *)
(***************************************************************************)
\* MAX_LOOKBACK, in days
Lookback15m == 60
Lookback1h == 730

Days(d) == 24 * d

\* datetime.strftime("%Y-%m-%d")
DateOf(t) == t \div 24

NoLimit == -1

MAX_LOOKBACK ==
    [k \in {"15m", "1h", "1d", "1wk"} |->
        CASE k = "15m" -> Days(Lookback15m)
          [] k = "1h" -> Days(Lookback1h)
          [] k = "1d" -> NoLimit
          [] k = "1wk" -> NoLimit]

INTERVALS ==
    [k \in {"15m", "1h", "1d", "1wk"} |->
        CASE k = "15m" -> "15m"
          [] k = "1h" -> "60m"
          [] k = "1d" -> "1d"
          [] k = "1wk" -> "1wk"]

\* the request yf.download receives
Request(interval_key, from, to) ==
    [interval |-> INTERVALS[interval_key], start |-> DateOf(from), end |-> DateOf(to)]

\* line 38: window_end = min(window_start + max_delta, end)
WindowEndUnclamped(window_start, max_delta, end) == window_start + max_delta

WindowEnd(window_start, max_delta, end) ==
    IF window_start + max_delta < end THEN window_start + max_delta ELSE end

\* lines 55-60: the table returned after the loop.  A chunk kept in dfs is not
\* empty, so neither is their concatenation with duplicate labels dropped
Collect(dfs) ==
    IF dfs = <<>> THEN [empty |-> TRUE, chunks |-> <<>>]
    ELSE [empty |-> FALSE, chunks |-> dfs]

(***************************************************************************)
(* State of one run of backtester.main                                     *)
(***************************************************************************)
VARIABLES
    pc,        \* position of main: "start", "ready" (before line 127), "done"
               \* (compute_performance returned), "raised", "exit", "saved"
    args,      \* the parsed command line: [strategy, capital]
    df,        \* the table read from the CSV: [index, cols]
    signals,   \* the Series generate_signals returned: [index, values]
    perf,      \* the dict compute_performance returned
    error,     \* the exception that ended the run, "" if none
    saved,     \* the equity curve written to args.output
    fpc,       \* position of fetch_interval_chunks: "start", "loop", "done", "raised"
    fargs,     \* its arguments: [interval_key, start, end]
    window_start,
    dfs,       \* the chunks that returned data
    windows,   \* history: the windows <<window_start, window_end>> requested so far
    requests,  \* history: the requests yf.download received
    outcomes,  \* history: what each download did: "data", "empty", "exception"
    fresult    \* the table fetch_interval_chunks returned

mainVars == <<pc, args, df, signals, perf, error, saved>>
fetchVars == <<fpc, fargs, window_start, dfs, windows, requests, outcomes, fresult>>
vars == <<pc, args, df, signals, perf, error, saved,
          fpc, fargs, window_start, dfs, windows, requests, outcomes, fresult>>

NoSeries == [index |-> <<>>, values |-> <<>>]
NoFile == [kind |-> "none"]

\* the get_name() of the classes discover_strategies finds in strategies/
StrategyNames == {"ma_crossover"}

SignalValues == {-1, 0, 1}

\* sequences of length n over S
SeqsOf(S, n) == [1..n -> S]

\* n timestamps from t0 with the given gaps
RECURSIVE IndexFrom(_, _)
IndexFrom(t0, gaps) ==
    IF gaps = <<>> THEN <<t0>>
    ELSE <<t0>> \o IndexFrom(t0 + Head(gaps), Tail(gaps))

DailyIndex(n) == [i \in 1..n |-> (i - 1) * MinPerDay]

Table(index, close) == [index |-> index, cols |-> [Close |-> close]]

(***************************************************************************)
(* Inputs.  Three families of CSV tables:                                  *)
(*  - every daily table of at most MaxLen rows over positive prices, and   *)
(*    over prices around zero;                                             *)
(*  - the prices of the spec's concrete scenario;                          *)
(*  - tables of a few rows under every spacing of GapValues, from a Monday *)
(*    and from a Thursday.                                                 *)
(***************************************************************************)
PositivePrices == {1, 2, 3}
PricesAroundZero == {-1, 0, 1}
Capitals == {One, Int2F(2)}

ScenarioPrices == <<Int2F(100), Int2F(110), Int2F(99), Int2F(99), Rat(1089, 10)>>

\* minutes: 1, 15, 1 h, 2 h, 17 h, 1 d, 2 d, 3 d, 7 d
GapValues == {1, 15, 60, 120, 1020, 1440, 2880, 4320, 10080}
StartValues == {0, 3 * MinPerDay}

ExhaustiveTables ==
    {Table(DailyIndex(Len(p)), [i \in 1..Len(p) |-> Int2F(p[i])]) :
        p \in UNION {SeqsOf(PositivePrices, n) \cup SeqsOf(PricesAroundZero, n) :
                        n \in 0..MaxLen}}

ScenarioTables == {Table(DailyIndex(Len(ScenarioPrices)), ScenarioPrices)}

SpacingTables ==
    {Table(IndexFrom(t0, g), [i \in 1..(Len(g) + 1) |-> Int2F(i)]) :
        t0 \in StartValues, g \in SeqsOf(GapValues, MaxLen - 1)}

FetchIdle ==
    /\ fpc = "idle"
    /\ fargs = [interval_key |-> "1d", start |-> 0, end |-> 0]
    /\ window_start = 0
    /\ dfs = <<>>
    /\ windows = <<>>
    /\ requests = <<>>
    /\ outcomes = <<>>
    /\ fresult = [empty |-> TRUE, chunks |-> <<>>]

InitWith(tables, names) ==
    /\ pc = "start"
    /\ df \in tables
    /\ args \in [strategy : names, capital : Capitals]
    /\ signals = NoSeries
    /\ perf = NoPerf
    /\ error = ""
    /\ saved = NoFile
    /\ FetchIdle

Init == InitWith(ExhaustiveTables, StrategyNames \cup {"unknown"})

(***************************************************************************)
(* main, lines 87-124: find the strategy, generate the signals and put     *)
(* them in the table.  The strategy is a plug-in: what it returns is an    *)
(* input, a Series over {-1, 0, +1} whose index is that of df or not.      *)
(***************************************************************************)
AlignKinds == {"aligned", "short", "long", "late"}

\* a Series a strategy returns: the values v on the table's index, or one entry
\* short, one entry long, or with its last label a minute late
StrategySeries(index, v, kind) ==
    LET n == Len(index)
        f == [i \in 1..n |-> Int2F(v[i])]
    IN  CASE kind = "aligned" -> [index |-> index, values |-> f]
          [] kind = "short" -> [index |-> SubSeq(index, 1, n - 1),
                                values |-> SubSeq(f, 1, n - 1)]
          [] kind = "long" -> [index |-> index \o <<index[n] + MinPerDay>>,
                               values |-> f \o <<One>>]
          [] kind = "late" -> [index |-> [i \in 1..n |->
                                            IF i = n THEN index[i] + 1 ELSE index[i]],
                               values |-> f]

\* df['signal'] = s: a Series is aligned to the table's index; a label of the
\* table the Series lacks gets NaN, a label only the Series has is dropped
Reindex(s, index) ==
    [i \in 1..Len(index) |->
        IF \E j \in 1..Len(s.index) : s.index[j] = index[i]
        THEN s.values[CHOOSE j \in 1..Len(s.index) : s.index[j] = index[i]]
        ELSE NaN]

\* lines 94-103: no class of strategies/ has the name asked for
StrategyNotFound ==
    /\ pc = "start"
    /\ args.strategy \notin StrategyNames
    /\ pc' = "exit"
    /\ UNCHANGED <<args, df, signals, perf, error, saved>>
    /\ UNCHANGED fetchVars

\* lines 119-124
GenerateSignals ==
    /\ pc = "start"
    /\ args.strategy \in StrategyNames
    /\ \E kind \in AlignKinds :
         /\ kind # "aligned" => Len(df.index) > 0
         /\ \E v \in SeqsOf(SignalValues, Len(df.index)) :
              /\ signals' = StrategySeries(df.index, v, kind)
              /\ df' = SetCol(df, "signal", Reindex(signals', df.index))
    /\ pc' = "ready"
    /\ UNCHANGED <<args, perf, error, saved>>
    /\ UNCHANGED fetchVars

\* lines 126-145: the call of compute_performance on the caller's table, then
\* the report and the equity curve saved; an exception ends the run before them
Backtest ==
    /\ pc = "ready"
    /\ LET r == compute_performance(df, "signal", "Close", args.capital)
       IN  /\ df' = r.df
           /\ perf' = r.perf
           /\ error' = r.raised
           /\ pc' = IF r.raised = "" THEN "done" ELSE "raised"
           /\ saved' = IF r.raised = ""
                       THEN [kind |-> "csv", index |-> r.df.index,
                             equity |-> r.perf.equity_series]
                       ELSE saved
    /\ UNCHANGED <<args, signals>>
    /\ UNCHANGED fetchVars

Next == StrategyNotFound \/ GenerateSignals \/ Backtest

Spec == Init /\ [][Next]_vars

\* the runs on the concrete scenario's prices
ScenarioSpec == InitWith(ScenarioTables, StrategyNames \cup {"unknown"}) /\ [][Next]_vars

\* the runs over the spacings of the index
SpacingSpec == InitWith(SpacingTables, StrategyNames \cup {"unknown"}) /\ [][Next]_vars

(***************************************************************************)
(* fetch_interval_chunks                                                   *)
(***************************************************************************)
IntervalKeys == {"15m", "1h", "1d", "1wk"}

\* starts at midnight or at noon; spans of whole half-lookbacks, and an hour or
\* a day more
StartTimes == {12 * k : k \in 0..MaxStart}

Spans(interval_key) ==
    LET half == IF MAX_LOOKBACK[interval_key] = NoLimit THEN Days(Lookback15m) \div 2
                ELSE MAX_LOOKBACK[interval_key] \div 2
    IN  {k * half + r : k \in 0..MaxHalfSpans, r \in {0, 1, 24}}

MainIdle ==
    /\ pc = "idle"
    /\ args = [strategy |-> "unknown", capital |-> One]
    /\ df = Table(<<>>, <<>>)
    /\ signals = NoSeries
    /\ perf = NoPerf
    /\ error = ""
    /\ saved = NoFile

FetchInit ==
    /\ MainIdle
    /\ fpc = "start"
    /\ \E k \in IntervalKeys, s \in StartTimes :
         \E n \in Spans(k) : fargs = [interval_key |-> k, start |-> s, end |-> s + n]
    /\ window_start = 0
    /\ dfs = <<>>
    /\ windows = <<>>
    /\ requests = <<>>
    /\ outcomes = <<>>
    /\ fresult = [empty |-> TRUE, chunks |-> <<>>]

Outcomes == {"data", "empty", "exception"}

\* lines 25-33: no maximum lookback, one download, whose exception is the caller's
FetchDirect ==
    /\ fpc = "start"
    /\ MAX_LOOKBACK[fargs.interval_key] = NoLimit
    /\ \E o \in Outcomes :
         /\ outcomes' = Append(outcomes, o)
         /\ fpc' = IF o = "exception" THEN "raised" ELSE "done"
         /\ fresult' = IF o = "data"
                       THEN [empty |-> FALSE, chunks |-> << <<fargs.start, fargs.end>> >>]
                       ELSE fresult
    /\ windows' = Append(windows, <<fargs.start, fargs.end>>)
    /\ requests' = Append(requests, Request(fargs.interval_key, fargs.start, fargs.end))
    /\ UNCHANGED <<fargs, window_start, dfs>>
    /\ UNCHANGED mainVars

\* lines 35-36
FetchBegin ==
    /\ fpc = "start"
    /\ MAX_LOOKBACK[fargs.interval_key] # NoLimit
    /\ dfs' = <<>>
    /\ window_start' = fargs.start
    /\ fpc' = "loop"
    /\ UNCHANGED <<fargs, windows, requests, outcomes, fresult>>
    /\ UNCHANGED mainVars

\* lines 37-53: one turn of the loop; the download returns data, returns an
\* empty table, or raises an exception the loop catches and prints
FetchChunk ==
    /\ fpc = "loop"
    /\ window_start < fargs.end
    /\ LET window_end == WindowEnd(window_start, MAX_LOOKBACK[fargs.interval_key], fargs.end)
       IN  /\ \E o \in Outcomes :
                /\ outcomes' = Append(outcomes, o)
                /\ dfs' = IF o = "data" THEN Append(dfs, <<window_start, window_end>>)
                          ELSE dfs
           /\ windows' = Append(windows, <<window_start, window_end>>)
           /\ requests' = Append(requests,
                                 Request(fargs.interval_key, window_start, window_end))
           /\ window_start' = window_end
    /\ UNCHANGED <<fpc, fargs, fresult>>
    /\ UNCHANGED mainVars

\* lines 37, 55-60: the loop ends and the chunks are returned
FetchReturn ==
    /\ fpc = "loop"
    /\ ~(window_start < fargs.end)
    /\ fresult' = Collect(dfs)
    /\ fpc' = "done"
    /\ UNCHANGED <<fargs, window_start, dfs, windows, requests, outcomes>>
    /\ UNCHANGED mainVars

FetchNext == FetchDirect \/ FetchBegin \/ FetchChunk \/ FetchReturn

\* the function runs to its end: nothing suspends a turn of the loop
FetchSpec == FetchInit /\ [][FetchNext]_vars /\ WF_vars(FetchNext)
(***************************************************************************)
(* Properties                                                              *)
(***************************************************************************)
\* compute_performance has been called, and returned or raised
Called == pc \in {"done", "raised"}

Aligned == signals.index = df.index

AllFinite(s) == \A i \in 1..Len(s) : IsFinite(s[i])

Rows == Len(df.index)

\* C1: lag rule.  For every price series and every aligned signal series,
\* strat_ret[0] = 0 and strat_ret[i] = signal[i-1] * price_ret[i] for i >= 1;
\* and when the only nonzero signal is at index k, strat_ret is 0 everywhere
\* but at k+1.
C1_LagRule ==
    (Called /\ Aligned) =>
        LET sr == df.cols["strat_ret"]
            sg == df.cols["signal"]
            pr == df.cols["price_ret"]
        IN  /\ Rows >= 1 => sr[1] = Zero
            /\ \A i \in 2..Rows : sr[i] = Mul(sg[i - 1], pr[i])
            /\ \A k \in 1..Rows :
                 (sg[k] # Zero /\ \A j \in 1..Rows : j # k => sg[j] = Zero)
                    => \A i \in 1..Rows : i # k + 1 => sr[i] = Zero

\* the part of C1 the code keeps: the lag itself, with IEEE products
C1_LagOnly ==
    (Called /\ Aligned) =>
        LET sr == df.cols["strat_ret"]
            sg == df.cols["signal"]
            pr == df.cols["price_ret"]
        IN  /\ Rows >= 1 => sr[1] = Zero
            /\ \A i \in 2..Rows : sr[i] = Mul(sg[i - 1], pr[i])

ScenarioSignals == <<One, One, Int2F(-1), Zero, Zero>>

ScenarioRun ==
    /\ pc = "done"
    /\ df.cols["Close"] = ScenarioPrices
    /\ Aligned
    /\ signals.values = ScenarioSignals
    /\ args.capital = One

\* C2: the concrete scenario.  Prices [100, 110, 99, 99, 108.9], signals
\* [1, 1, -1, 0, 0] and capital 1 give price returns [0, 1/10, -1/10, 0, 1/10],
\* strategy returns [0, 0, -1/10, 0, 0], equity [1, 1, 9/10, 9/10, 9/10],
\* total_return -1/10 and max_drawdown -1/10.
C2_ScenarioAsStated ==
    ScenarioRun =>
        /\ df.cols["price_ret"] = <<Zero, Rat(1, 10), Rat(-1, 10), Zero, Rat(1, 10)>>
        /\ perf.returns_series = <<Zero, Zero, Rat(-1, 10), Zero, Zero>>
        /\ perf.equity_series = <<One, One, Rat(9, 10), Rat(9, 10), Rat(9, 10)>>
        /\ perf.total_return = Rat(-1, 10)
        /\ perf.max_drawdown = Rat(-1, 10)

\* C2 as amended: the signal of index 0 earns the return of index 1, so the
\* strategy returns are [0, 1/10, -1/10, 0, 0], the equity is
\* [1, 11/10, 99/100, 99/100, 99/100], total_return is -1/100 and
\* max_drawdown is -1/10.
C2_Scenario ==
    ScenarioRun =>
        /\ df.cols["price_ret"] = <<Zero, Rat(1, 10), Rat(-1, 10), Zero, Rat(1, 10)>>
        /\ perf.returns_series = <<Zero, Rat(1, 10), Rat(-1, 10), Zero, Zero>>
        /\ perf.equity_series =
             <<One, Rat(11, 10), Rat(99, 100), Rat(99, 100), Rat(99, 100)>>
        /\ perf.total_return = Rat(-1, 100)
        /\ perf.max_drawdown = Rat(-1, 10)

\* C2, witness: the scenario has run
C2_Witness == ScenarioRun

\* C3: a run whose signal series differs from the price series in length or in
\* timestamps fails with the alignment error; it never completes on a signal
\* series cut, extended or filled in.
C3_AlignmentReported == pc = "done" => Aligned

ZeroPriorPrice == \E i \in 1..(Rows - 1) : df.cols["Close"][i] = Zero

\* C4: a table with a zero prior price never completes with an infinite or
\* not-a-number value in price_ret, strat_ret or the equity curve.
C4_ZeroPriceSignalled ==
    (pc = "done" /\ ZeroPriorPrice) =>
        /\ AllFinite(df.cols["price_ret"])
        /\ AllFinite(perf.returns_series)
        /\ AllFinite(perf.equity_series)

\* C5: compute_performance leaves the caller's table as it was: the same
\* columns, the same values.
C5_InputNotMutated == [][(pc = "ready" /\ pc' \in {"done", "raised"}) => df' = df]_vars

IsDigit(c) == c \in {"0", "1", "2", "3", "4", "5", "6", "7", "8", "9"}

RECURSIVE StripCount(_)
StripCount(code) ==
    IF code # <<>> /\ IsDigit(Head(code)) THEN StripCount(Tail(code)) ELSE code

ExpectedFactor(inferred) ==
    IF inferred.kind = "None" THEN Int2F(252)
    ELSE LET base == StripCount(inferred.chars)
         IN  IF base = <<"D">> \/ base = <<"B">> THEN Int2F(252)
             ELSE IF base = <<"H">> THEN Int2F(1638)
             ELSE IF base = <<"T">> THEN Int2F(6552)
             ELSE Int2F(252)

\* C6: annualization selection.  A daily or business-day code gives 252, an
\* hourly code 1638, a minute code (15-minute bars) 6552, with or without a
\* multiplier before the code; no code inferred gives 252.
C6_Annualization ==
    pc = "done" => perf.annual_return.exp = ExpectedFactor(infer_freq(df.index))

PositiveClose == \A i \in 1..Rows : Less(Zero, df.cols["Close"][i])

PrefixMax(s, i) == CHOOSE m \in {s[j] : j \in 1..i} : \A j \in 1..i : Leq(s[j], m)

DrawdownAt(s, i) == Sub(Div(s[i], PrefixMax(s, i)), One)

SharpeValue(sr, factor) ==
    SurdTimesSqrt(DivBySurd(SeriesMean(sr), SeriesStd(sr)), factor)

\* C8: Sharpe ratio.  Whenever the sample standard deviation of the strategy
\* returns is 0, compute_performance returns, and returns NaN as sharpe_ratio;
\* whenever it is a nonzero finite number, sharpe_ratio is the finite
\* (mean / std) * sqrt(factor).
C8_Sharpe ==
    Called =>
        LET sr == df.cols["strat_ret"]
            std == SeriesStd(sr)
        IN  /\ SurdIsZero(std) => (pc = "done" /\ SurdIsNaN(perf.sharpe_ratio))
            /\ (pc = "done" /\ SurdIsFinite(std) /\ ~SurdIsZero(std)) =>
                 /\ SurdIsFinite(perf.sharpe_ratio)
                 /\ perf.sharpe_ratio = SharpeValue(sr, perf.annual_return.exp)

\* what the code keeps of C8: the same, of the calls that return
C8_SharpeWhenReturned ==
    pc = "done" =>
        LET sr == df.cols["strat_ret"]
            std == SeriesStd(sr)
        IN  /\ SurdIsZero(std) => SurdIsNaN(perf.sharpe_ratio)
            /\ (SurdIsFinite(std) /\ ~SurdIsZero(std)) =>
                 /\ SurdIsFinite(perf.sharpe_ratio)
                 /\ perf.sharpe_ratio = SharpeValue(sr, perf.annual_return.exp)

ZeroSignalRun ==
    /\ Called
    /\ Rows >= 1
    /\ Aligned
    /\ \A i \in 1..Rows : signals.values[i] = Zero
    /\ \A i \in 1..Rows : df.cols["Close"][i] # Zero

Chunked == MAX_LOOKBACK[fargs.interval_key] # NoLimit /\ fargs.start < fargs.end

LastEnd == IF windows = <<>> THEN fargs.start ELSE windows[Len(windows)][2]

\* the windows of C10 in every state of the loop and after it
C10_Windows ==
    (Chunked /\ fpc # "start") =>
        /\ fpc \in {"loop", "done"}
        /\ Len(outcomes) = Len(windows)
        /\ Len(requests) = Len(windows)
        /\ \A i \in 1..Len(windows) :
             /\ windows[i][1] < windows[i][2]
             /\ windows[i][2] - windows[i][1] <= MAX_LOOKBACK[fargs.interval_key]
             /\ windows[i][1] = IF i = 1 THEN fargs.start ELSE windows[i - 1][2]
        /\ window_start = LastEnd
        /\ LastEnd <= fargs.end
        /\ fpc = "done" =>
             /\ LastEnd = fargs.end
             /\ fresult.empty <=> \A i \in 1..Len(outcomes) : outcomes[i] # "data"

\* C10: the chunked download.  With a maximum lookback and start < end the
\* loop ends; the windows requested start at start, each begins where the one
\* before ended, none is empty or longer than the lookback, and the last ends
\* at end, whatever each download did; the table returned is empty exactly
\* when no download returned data.
C10_ChunkLoop == [](C10_Windows) /\ (Chunked => <>(fpc = "done"))

\* C10, witness: a run from noon whose first download raises, whose second
\* returns nothing and whose third returns data
C10_Witness ==
    /\ Chunked
    /\ fpc = "done"
    /\ fargs.start = 12
    /\ Len(windows) >= 3
    /\ outcomes[1] = "exception"
    /\ outcomes[2] = "empty"
    /\ outcomes[3] = "data"
    /\ ~fresult.empty

=============================================================================
